---------------------------- MODULE Spec2Model ----------------------------
(* Model of the Network Topology Learning API (src/main.py, src/schemas.py). *)
(* Every HTTP request is one atomic step: schema validation of the body,     *)
(* the route handler, and the store call the handler makes.                   *)
EXTENDS Integers, Sequences, FiniteSets, TLC

VARIABLES
    db,       \* the document store: collection name -> sequence of documents
    nextId,   \* counter behind the store-assigned document ids
    req,      \* the request handled last
    resp,     \* the response the client received for it
    steps     \* the stages the server went through while handling it

vars == <<db, nextId, req, resp, steps>>

-----------------------------------------------------------------------------
(* Bounds of the model *)

\* documents the store can hold before every further insert fails
MaxDocs == 2
\* largest option index a learner submits; submitted values are -1..MaxAnswer
MaxAnswer == 2

-----------------------------------------------------------------------------
(* Values *)

\* Python's None
None == "None"

Names == {"Ana"}

\* messages of the exceptions a failing store call raises
DbErrors == {"Database not available", "connection timed out"}

Collections == {"worksheet", "reflection", "quizsubmission"}

-----------------------------------------------------------------------------
(* The static quiz bank, src/main.py:28-70 *)

NetworkTopologies ==
    [title |-> "Computer Network Topologies",
     questions |-> <<
        [id |-> "q1",
         question |-> "Which topology uses a central hub/switch to connect all nodes?",
         options |-> <<"Bus", "Star", "Ring", "Mesh">>,
         answer |-> 1],
        [id |-> "q2",
         question |-> "In which topology does data travel in one direction around a closed loop?",
         options |-> <<"Ring", "Tree", "Hybrid", "Bus">>,
         answer |-> 0],
        [id |-> "q3",
         question |-> "Which topology provides multiple redundant paths between nodes?",
         options |-> <<"Mesh", "Bus", "Star", "Tree">>,
         answer |-> 0],
        [id |-> "q4",
         question |-> "A backbone cable with terminators at both ends describes which topology?",
         options |-> <<"Bus", "Star", "Tree", "Hybrid">>,
         answer |-> 0],
        [id |-> "q5",
         question |-> "Which topology is a hierarchical combination of star topologies?",
         options |-> <<"Mesh", "Tree", "Ring", "Bus">>,
         answer |-> 1],
        [id |-> "q6",
         question |-> "A network combining multiple topology types is called?",
         options |-> <<"Composite", "Mixed", "Hybrid", "Aggregate">>,
         answer |-> 2]
     >>]

QUIZ_BANK == [k \in {"network-topologies"} |-> NetworkTopologies]

\* QUIZ_BANK.get(quiz_key) followed by `if not data`
KnownQuiz(quiz_key) == quiz_key \in DOMAIN QUIZ_BANK

\* quiz keys a client puts in the URL path
PathKeys == {"network-topologies", "unknown-quiz"}

QuestionIds(quiz_key) ==
    {QUIZ_BANK[quiz_key].questions[i].id : i \in 1..Len(QUIZ_BANK[quiz_key].questions)}

\* keys of an answer map that name no question of the quiz
ExtraKeys == {"zz"}

AnswerKeys == QuestionIds("network-topologies") \cup ExtraKeys

AnswerVals == (-1)..MaxAnswer

\* every answer map: any subset of the keys, any value for each
AllAnswerMaps ==
    UNION {[ks -> AnswerVals] : ks \in SUBSET AnswerKeys}


-----------------------------------------------------------------------------
(* Request bodies and schema validation, src/schemas.py *)

\* a JSON body is a function from the field names it carries to their values
Field(body, name, default) == IF name \in DOMAIN body THEN body[name] ELSE default

\* class Worksheet: student_name and class_name are required
ValidWorksheet(body) == {"student_name", "class_name"} \subseteq DOMAIN body

\* the validated Worksheet, defaults filled in
ParseWorksheet(body) ==
    [student_name |-> body["student_name"],
     class_name |-> body["class_name"],
     topic |-> Field(body, "topic", "Computer Network Topologies"),
     answers |-> Field(body, "answers", <<>>)]

\* Field(..., ge=1, le=5)
MinLevel == 1
MaxLevel == 5

\* variant: the upper limit of understanding_level is not declared
ValidReflectionNoUpper(body) ==
    /\ {"worksheet_id", "student_name", "understanding_level"} \subseteq DOMAIN body
    /\ body["understanding_level"] >= MinLevel

\* class Reflection: three required fields, understanding_level in 1..5
ValidReflection(body) ==
    /\ {"worksheet_id", "student_name", "understanding_level"} \subseteq DOMAIN body
    /\ body["understanding_level"] >= MinLevel
    /\ body["understanding_level"] <= MaxLevel

ParseReflection(body) ==
    [worksheet_id |-> body["worksheet_id"],
     student_name |-> body["student_name"],
     understanding_level |-> body["understanding_level"],
     feelings |-> Field(body, "feelings", None),
     challenges |-> Field(body, "challenges", None),
     questions |-> Field(body, "questions", None)]

\* class QuizSubmission: quiz_key is declared Field(...), a required field
ValidQuizSubmission(body) == "quiz_key" \in DOMAIN body

ParseQuizSubmission(body) ==
    [student_name |-> Field(body, "student_name", None),
     quiz_key |-> body["quiz_key"],
     answers |-> Field(body, "answers", <<>>),
     score |-> None,
     total |-> None,
     details |-> None]

-----------------------------------------------------------------------------
(* Store identifiers *)

\* length of the hexadecimal form of an ObjectId
OidLen == 24

HexDigits == <<"0", "1", "2", "3", "4", "5", "6", "7",
               "8", "9", "a", "b", "c", "d", "e", "f">>

HexChars == {HexDigits[i] : i \in 1..16} \cup {"A", "B", "C", "D", "E", "F"}

\* ObjectId(s) for a string s (a sequence of characters) does not raise
IsValidObjectId(s) == Len(s) = OidLen /\ \A i \in 1..Len(s) : s[i] \in HexChars

\* the n-th identifier the store hands out, as an ObjectId
NewObjectId(n) ==
    [oid |-> [i \in 1..OidLen |->
                IF i = OidLen THEN HexDigits[(n % 16) + 1]
                ELSE IF i = OidLen - 1 THEN HexDigits[((n \div 16) % 16) + 1]
                ELSE "0"]]

\* str(ObjectId)
Str(objectId) == objectId.oid

-----------------------------------------------------------------------------
(* The document store behind database.create_document / get_documents *)

StoreSize == Len(db["worksheet"]) + Len(db["reflection"]) + Len(db["quizsubmission"])

\* what a store call can do: succeed, or raise with one of the messages
DbOutcomes == IF StoreSize < MaxDocs THEN {"ok"} \cup DbErrors ELSE DbErrors

\* the store after create_document(collection, data) succeeded
Inserted(collection, data) ==
    [db EXCEPT ![collection] = Append(@, ("_id" :> NewObjectId(nextId)) @@ data)]

\* the id create_document returns
InsertedId == Str(NewObjectId(nextId))

-----------------------------------------------------------------------------
(* Responses *)

JSONResponse(body) == [status |-> 200, body |-> body]

HTTPException(status_code, detail) == [status |-> status_code, body |-> [detail |-> detail]]

\* FastAPI's answer to a body that fails schema validation
RequestValidationError == [status |-> 422, body |-> [detail |-> "validation error"]]

\* no request handled yet
NoResponse == [status |-> 0, body |-> [detail |-> "none"]]

-----------------------------------------------------------------------------
(* Grading, the loop of submit_quiz (src/main.py:138-161) *)

\* variant: an unanswered question defaults to option 0
SelectedDefaultZero(answers, qid) == IF qid \in DOMAIN answers THEN answers[qid] ELSE 0

\* payload.answers.get(qid, -1)
Selected(answers, qid) == IF qid \in DOMAIN answers THEN answers[qid] ELSE -1

\* variant: any option at or past the correct one is accepted
IsCorrectAtLeast(selected, q) == selected >= q.answer

\* int(selected) == int(q["answer"]); both are already integers
IsCorrect(selected, q) == selected = q.answer

\* the entry appended to details for question q
Detail(q, selected) ==
    [id |-> q.id,
     question |-> q.question,
     selected |-> selected,
     correct_answer |-> q.answer,
     is_correct |-> IsCorrect(selected, q)]

\* variant: every answered question is counted
CountedAnswered(correct, selected, q) == IF selected # -1 THEN correct + 1 ELSE correct

\* the counter after question q: `if is_correct: correct += 1`
Counted(correct, selected, q) == IF IsCorrect(selected, q) THEN correct + 1 ELSE correct

RECURSIVE GradeLoopAnswered(_, _, _, _, _)
\* variant: only the questions the learner answered get an entry
GradeLoopAnswered(questions, answers, i, correct, details) ==
    IF i > Len(questions) THEN <<correct, details>>
    ELSE LET q == questions[i]
             selected == IF q.id \in DOMAIN answers THEN answers[q.id] ELSE -1
         IN IF q.id \in DOMAIN answers
            THEN GradeLoopAnswered(questions, answers, i + 1,
                                   IF selected = q.answer THEN correct + 1 ELSE correct,
                                   Append(details,
                                          [id |-> q.id, question |-> q.question,
                                           selected |-> selected,
                                           correct_answer |-> q.answer,
                                           is_correct |-> selected = q.answer]))
            ELSE GradeLoopAnswered(questions, answers, i + 1, correct, details)

RECURSIVE GradeLoop(_, _, _, _, _)
\* the for loop from its i-th iteration on, with the accumulators so far;
\* yields the final <<correct, details>>
GradeLoop(questions, answers, i, correct, details) ==
    IF i > Len(questions) THEN <<correct, details>>
    ELSE LET q == questions[i]
             selected == Selected(answers, q.id)
         IN GradeLoop(questions, answers, i + 1,
                      Counted(correct, selected, q),
                      Append(details, Detail(q, selected)))

\* the result dict built at lines 138-161
QuizResult(quiz_key, payload) ==
    LET data == QUIZ_BANK[quiz_key]
        graded == GradeLoop(data.questions, payload.answers, 1, 0, <<>>)
    IN [student_name |-> payload.student_name,
        quiz_key |-> quiz_key,
        score |-> graded[1],
        total |-> Len(data.questions),
        details |-> graded[2]]

\* QuizQuestion.model_validate({"id", "question", "options"}): the public view
PublicQuestion(q) == [id |-> q.id, question |-> q.question, options |-> q.options]

-----------------------------------------------------------------------------
(* Route handlers. `out` is what the store does if the handler calls it. *)

read_root ==
    /\ req' = [op |-> "read_root"]
    /\ resp' = JSONResponse([message |-> "Network Topology Learning Backend"])
    /\ steps' = <<"handler">>
    /\ UNCHANGED <<db, nextId>>

\* variant: a failed insert is swallowed, as in submit_quiz
submit_worksheet_swallowing(body, out) ==
    /\ req' = [op |-> "submit_worksheet", body |-> body]
    /\ IF ~ValidWorksheet(body)
       THEN /\ resp' = RequestValidationError
            /\ steps' = <<"validate">>
            /\ UNCHANGED <<db, nextId>>
       ELSE IF out = "ok"
       THEN /\ db' = Inserted("worksheet", ParseWorksheet(body))
            /\ nextId' = nextId + 1
            /\ resp' = JSONResponse([id |-> InsertedId])
            /\ steps' = <<"validate", "handler", "create_document", "inserted">>
       ELSE /\ resp' = JSONResponse([id |-> None])
            /\ steps' = <<"validate", "handler", "create_document", "raise", out>>
            /\ UNCHANGED <<db, nextId>>

submit_worksheet(body, out) ==
    /\ req' = [op |-> "submit_worksheet", body |-> body]
    /\ IF ~ValidWorksheet(body)
       THEN /\ resp' = RequestValidationError
            /\ steps' = <<"validate">>
            /\ UNCHANGED <<db, nextId>>
       ELSE IF out = "ok"
       THEN /\ db' = Inserted("worksheet", ParseWorksheet(body))
            /\ nextId' = nextId + 1
            /\ resp' = JSONResponse([id |-> InsertedId])
            /\ steps' = <<"validate", "handler", "create_document", "inserted">>
       ELSE /\ resp' = HTTPException(500, out)
            /\ steps' = <<"validate", "handler", "create_document", "raise", out>>
            /\ UNCHANGED <<db, nextId>>

\* d["_id"] = str(d["_id"]) for each document
Rendered(docs) == [i \in 1..Len(docs) |-> [docs[i] EXCEPT !["_id"] = Str(@)]]

list_worksheets(out) ==
    /\ req' = [op |-> "list_worksheets"]
    /\ resp' = IF out = "ok"
               THEN JSONResponse(Rendered(db["worksheet"]))
               ELSE HTTPException(500, out)
    /\ steps' = <<"handler", "get_documents">>
    /\ UNCHANGED <<db, nextId>>

\* variant: the ObjectId check sits inside the one try block of the insert
submit_reflection_one_try(body, out) ==
    /\ req' = [op |-> "submit_reflection", body |-> body]
    /\ IF ~ValidReflection(body)
       THEN /\ resp' = RequestValidationError
            /\ steps' = <<"validate">>
            /\ UNCHANGED <<db, nextId>>
       ELSE IF ~IsValidObjectId(body["worksheet_id"])
       THEN /\ resp' = HTTPException(500, "not a valid ObjectId")
            /\ steps' = <<"validate", "handler", "ObjectId">>
            /\ UNCHANGED <<db, nextId>>
       ELSE IF out = "ok"
       THEN /\ db' = Inserted("reflection", ParseReflection(body))
            /\ nextId' = nextId + 1
            /\ resp' = JSONResponse([id |-> InsertedId])
            /\ steps' = <<"validate", "handler", "ObjectId", "create_document", "inserted">>
       ELSE /\ resp' = HTTPException(500, out)
            /\ steps' = <<"validate", "handler", "ObjectId", "create_document", "raise", out>>
            /\ UNCHANGED <<db, nextId>>

submit_reflection(body, out) ==
    /\ req' = [op |-> "submit_reflection", body |-> body]
    /\ IF ~ValidReflection(body)
       THEN /\ resp' = RequestValidationError
            /\ steps' = <<"validate">>
            /\ UNCHANGED <<db, nextId>>
       ELSE IF ~IsValidObjectId(body["worksheet_id"])
       THEN /\ resp' = HTTPException(400, "Invalid worksheet_id")
            /\ steps' = <<"validate", "handler", "ObjectId">>
            /\ UNCHANGED <<db, nextId>>
       ELSE IF out = "ok"
       THEN /\ db' = Inserted("reflection", ParseReflection(body))
            /\ nextId' = nextId + 1
            /\ resp' = JSONResponse([id |-> InsertedId])
            /\ steps' = <<"validate", "handler", "ObjectId", "create_document", "inserted">>
       ELSE /\ resp' = HTTPException(500, out)
            /\ steps' = <<"validate", "handler", "ObjectId", "create_document", "raise", out>>
            /\ UNCHANGED <<db, nextId>>

get_quiz(quiz_key) ==
    /\ req' = [op |-> "get_quiz", quiz_key |-> quiz_key]
    /\ resp' = IF ~KnownQuiz(quiz_key)
               THEN HTTPException(404, "Quiz not found")
               ELSE LET data == QUIZ_BANK[quiz_key]
                    IN JSONResponse(
                         [title |-> data.title,
                          questions |-> [i \in 1..Len(data.questions) |->
                                           PublicQuestion(data.questions[i])]])
    /\ steps' = <<"handler">>
    /\ UNCHANGED <<db, nextId>>

\* variant: the insert is not wrapped in try/except, its failure reaches the client
submit_quiz_propagating(quiz_key, body, out) ==
    /\ req' = [op |-> "submit_quiz", quiz_key |-> quiz_key, body |-> body]
    /\ IF ~ValidQuizSubmission(body)
       THEN /\ resp' = RequestValidationError
            /\ steps' = <<"validate">>
            /\ UNCHANGED <<db, nextId>>
       ELSE IF ~KnownQuiz(quiz_key)
       THEN /\ resp' = HTTPException(404, "Quiz not found")
            /\ steps' = <<"validate", "handler">>
            /\ UNCHANGED <<db, nextId>>
       ELSE LET result == QuizResult(quiz_key, ParseQuizSubmission(body))
            IN IF out = "ok"
               THEN /\ resp' = JSONResponse(result)
                    /\ db' = Inserted("quizsubmission", result)
                    /\ nextId' = nextId + 1
                    /\ steps' = <<"validate", "handler", "grade",
                                  "create_document", "inserted">>
               ELSE /\ resp' = HTTPException(500, out)
                    /\ steps' = <<"validate", "handler", "grade",
                                  "create_document", "raise", out>>
                    /\ UNCHANGED <<db, nextId>>

\* variant: an unknown key is graded as a quiz without questions
\* (QUIZ_BANK.get(quiz_key, {"questions": []}))
submit_quiz_default_empty(quiz_key, body, out) ==
    /\ req' = [op |-> "submit_quiz", quiz_key |-> quiz_key, body |-> body]
    /\ IF ~ValidQuizSubmission(body)
       THEN /\ resp' = RequestValidationError
            /\ steps' = <<"validate">>
            /\ UNCHANGED <<db, nextId>>
       ELSE LET payload == ParseQuizSubmission(body)
                result == IF KnownQuiz(quiz_key)
                          THEN QuizResult(quiz_key, payload)
                          ELSE [student_name |-> payload.student_name,
                                quiz_key |-> quiz_key,
                                score |-> 0, total |-> 0, details |-> <<>>]
            IN /\ resp' = JSONResponse(result)
               /\ IF out = "ok"
                  THEN /\ db' = Inserted("quizsubmission", result)
                       /\ nextId' = nextId + 1
                       /\ steps' = <<"validate", "handler", "grade",
                                     "create_document", "inserted">>
                  ELSE /\ steps' = <<"validate", "handler", "grade",
                                     "create_document", "raise", out>>
                       /\ UNCHANGED <<db, nextId>>

submit_quiz(quiz_key, body, out) ==
    /\ req' = [op |-> "submit_quiz", quiz_key |-> quiz_key, body |-> body]
    /\ IF ~ValidQuizSubmission(body)
       THEN /\ resp' = RequestValidationError
            /\ steps' = <<"validate">>
            /\ UNCHANGED <<db, nextId>>
       ELSE IF ~KnownQuiz(quiz_key)
       THEN /\ resp' = HTTPException(404, "Quiz not found")
            /\ steps' = <<"validate", "handler">>
            /\ UNCHANGED <<db, nextId>>
       ELSE LET result == QuizResult(quiz_key, ParseQuizSubmission(body))
            IN /\ resp' = JSONResponse(result)
               /\ IF out = "ok"
                  THEN /\ db' = Inserted("quizsubmission", result)
                       /\ nextId' = nextId + 1
                       /\ steps' = <<"validate", "handler", "grade",
                                     "create_document", "inserted">>
                  ELSE /\ steps' = <<"validate", "handler", "grade",
                                     "create_document", "raise", out>>
                       /\ UNCHANGED <<db, nextId>>

-----------------------------------------------------------------------------
(* Requests the clients send *)

WorksheetBodies ==
    {[student_name |-> "Ana", class_name |-> "7A"],
     [student_name |-> "Ana", class_name |-> "7A", topic |-> "Routing",
      answers |-> <<[question_id |-> "w1", answer_text |-> "a star has a hub"]>>],
     [student_name |-> "Ana"]}

\* a well-formed identifier no document of the store carries
ForeignId == <<"6", "4", "b", "7", "f", "0", "c", "2", "a", "1", "d", "3",
               "E", "4", "F", "5", "a", "6", "b", "7", "c", "8", "d", "9">>

WorksheetIds ==
    {Str(NewObjectId(1)),
     ForeignId,
     <<"n", "o", "t", "-", "a", "n", "-", "i", "d">>,
     [ForeignId EXCEPT ![5] = "g"],
     SubSeq(ForeignId, 1, OidLen - 1),
     <<>>}

ReflectionBodies ==
    {[worksheet_id |-> w, student_name |-> "Ana", understanding_level |-> 3] :
        w \in WorksheetIds}
    \cup {[worksheet_id |-> ForeignId, student_name |-> "Ana", understanding_level |-> l] :
            l \in {MinLevel - 1, MinLevel, MaxLevel, MaxLevel + 1}}
    \cup {[worksheet_id |-> <<"n", "o", "t", "-", "a", "n", "-", "i", "d">>,
           student_name |-> "Ana", understanding_level |-> MaxLevel + 1],
          [worksheet_id |-> ForeignId, student_name |-> "Ana",
           understanding_level |-> 3, feelings |-> "curious"],
          [student_name |-> "Ana", understanding_level |-> 3]}

\* the answers of the scenario: q1 and q2 right, q3 wrong, the rest unanswered
ScenarioAnswers == [k \in {"q1", "q2", "q3"} |-> IF k = "q2" THEN 0 ELSE 1]

\* the correct index for every question of the quiz
CorrectAnswers(quiz_key) ==
    LET qs == QUIZ_BANK[quiz_key].questions
    IN [k \in QuestionIds(quiz_key) |->
          qs[CHOOSE i \in 1..Len(qs) : qs[i].id = k].answer]

SampleAnswers ==
    {<<>>, ScenarioAnswers, [k \in {"q6", "zz"} |-> 2]}

\* submit bodies: answers always, student_name and quiz_key optionally
QuizBodies ==
    {[answers |-> a, quiz_key |-> "network-topologies"] : a \in SampleAnswers}
    \cup {[answers |-> ScenarioAnswers],
          [answers |-> ScenarioAnswers, student_name |-> "Ana"],
          [answers |-> CorrectAnswers("network-topologies"), student_name |-> "Ana",
           quiz_key |-> "unknown-quiz"]}

-----------------------------------------------------------------------------
(* The server: requests arrive in any order, each handled in one step *)

Init ==
    /\ db = [c \in Collections |-> <<>>]
    /\ nextId = 1
    /\ req = [op |-> "none"]
    /\ resp = NoResponse
    /\ steps = <<>>

Next ==
    \/ read_root
    \/ \E body \in WorksheetBodies, out \in DbOutcomes : submit_worksheet(body, out)
    \/ \E out \in {"ok"} \cup DbErrors : list_worksheets(out)
    \/ \E body \in ReflectionBodies, out \in DbOutcomes : submit_reflection(body, out)
    \/ \E quiz_key \in PathKeys : get_quiz(quiz_key)
    \/ \E quiz_key \in PathKeys, body \in QuizBodies, out \in DbOutcomes :
          submit_quiz(quiz_key, body, out)

Spec == Init /\ [][Next]_vars

(* Grading alone: one submission to a known quiz, drawn from every answer map *)

GradeInit ==
    /\ db = [c \in Collections |-> <<>>]
    /\ nextId = 1
    /\ req \in {[op |-> "submit_quiz", quiz_key |-> k, body |-> b] :
                  k \in DOMAIN QUIZ_BANK,
                  b \in {[answers |-> a, quiz_key |-> k2] :
                           a \in AllAnswerMaps, k2 \in DOMAIN QUIZ_BANK}}
    /\ resp = NoResponse
    /\ steps = <<>>

GradeNext ==
    /\ resp = NoResponse
    /\ \E out \in DbOutcomes : submit_quiz(req.quiz_key, req.body, out)

GradeSpec == GradeInit /\ [][GradeNext]_vars

-----------------------------------------------------------------------------
(* Properties of grading, checked under GradeSpec *)

\* the last request was a quiz submission and the client got a result
Graded == req.op = "submit_quiz" /\ resp.status = 200

Questions == QUIZ_BANK[req.quiz_key].questions

Answers == Field(req.body, "answers", <<>>)

CorrectEntries == {i \in 1..Len(resp.body.details) : resp.body.details[i].is_correct}

\* C1: for every answer map sent to a known quiz, the score of the result is the
\* number of detail entries marked correct, and the total is the number of
\* questions of the quiz definition, not the number of answers submitted.
C1_ScoreCountsCorrectEntries ==
    Graded =>
        /\ resp.body.score = Cardinality(CorrectEntries)
        /\ resp.body.total = Len(Questions)

\* a graded submission with an extra key, unanswered questions, right and wrong answers
C1_Witness ==
    /\ Graded
    /\ "zz" \in DOMAIN Answers
    /\ Cardinality(DOMAIN Answers) = 4
    /\ resp.body.score = 2
    /\ resp.body.total = 6
    /\ \E i \in 1..Len(Questions) :
          Questions[i].id \in DOMAIN Answers /\ ~resp.body.details[i].is_correct

\* C2: a detail entry is marked correct exactly when the answer map holds a value
\* for the question and that value is the stored correct index; so giving the
\* correct index for every question scores score = total with every entry correct,
\* and the answers q1=1, q2=0, q3=1 score 2 of 6 with q3 wrong (selected 1, correct 0).
C2_CorrectIffStoredIndex ==
    Graded =>
        /\ \A i \in 1..Len(Questions) :
              resp.body.details[i].is_correct <=>
                 /\ Questions[i].id \in DOMAIN Answers
                 /\ Answers[Questions[i].id] = Questions[i].answer
        /\ (\A i \in 1..Len(Questions) :
               /\ Questions[i].id \in DOMAIN Answers
               /\ Answers[Questions[i].id] = Questions[i].answer)
           => /\ resp.body.score = resp.body.total
              /\ \A i \in 1..Len(resp.body.details) : resp.body.details[i].is_correct
        /\ (req.quiz_key = "network-topologies" /\ Answers = ScenarioAnswers)
           => /\ resp.body.score = 2
              /\ resp.body.total = 6
              /\ resp.body.details[3].id = "q3"
              /\ ~resp.body.details[3].is_correct
              /\ resp.body.details[3].selected = 1
              /\ resp.body.details[3].correct_answer = 0

\* the scenario submission has been graded
C2_Witness == Graded /\ Answers = ScenarioAnswers /\ resp.body.score = 2

\* C3: a question absent from the answer map gets selected = -1, and since no
\* question of the bank has -1 as its correct index that entry is never correct;
\* an empty answer map scores 0 with every selected = -1.
C3_AbsentIsSentinelAndWrong ==
    /\ \A k \in DOMAIN QUIZ_BANK : \A i \in 1..Len(QUIZ_BANK[k].questions) :
          QUIZ_BANK[k].questions[i].answer # -1
    /\ Graded =>
          /\ \A i \in 1..Len(Questions) :
                Questions[i].id \notin DOMAIN Answers
                => /\ resp.body.details[i].selected = -1
                   /\ ~resp.body.details[i].is_correct
          /\ DOMAIN Answers = {}
             => /\ resp.body.score = 0
                /\ \A i \in 1..Len(resp.body.details) :
                      resp.body.details[i].selected = -1

\* the empty answer map has been graded
C3_Witness == Graded /\ DOMAIN Answers = {} /\ Len(resp.body.details) = 6

\* C4: the details of a result have exactly one entry per question of the quiz
\* definition, with the ids in the definition's order, whatever keys were sent.
C4_DetailsFollowDefinition ==
    Graded =>
        /\ Len(resp.body.details) = Len(Questions)
        /\ \A i \in 1..Len(Questions) : resp.body.details[i].id = Questions[i].id

\* a graded submission that answers only the last question and an unknown key
C4_Witness ==
    /\ Graded
    /\ DOMAIN Answers = {"q6", "zz"}
    /\ resp.body.details[1].id = "q1"
    /\ resp.body.details[6].id = "q6"

-----------------------------------------------------------------------------
(* Properties of the request handling, checked under Spec *)

StepSet == {steps[i] : i \in 1..Len(steps)}

\* the store call of the last request raised
Raised == "raise" \in StepSet

\* C5: when submit_quiz runs for a known quiz and the insert of the result fails,
\* the client still gets the computed result (200 with score, total, details) and
\* no error response.
C5_QuizResultSurvivesInsertFailure ==
    (req.op = "submit_quiz" /\ KnownQuiz(req.quiz_key) /\ Raised) =>
        /\ resp.status = 200
        /\ DOMAIN resp.body = {"student_name", "quiz_key", "score", "total", "details"}
        /\ resp.body.quiz_key = req.quiz_key
        /\ resp.body.total = Len(Questions)
        /\ Len(resp.body.details) = Len(Questions)
        /\ resp.body.score = Cardinality(CorrectEntries)

\* the scenario answers were graded while the store was failing
C5_Witness ==
    /\ req.op = "submit_quiz"
    /\ Raised
    /\ resp.status = 200
    /\ Answers = ScenarioAnswers
    /\ resp.body.score = 2

UnknownKeyRequest(r) == r.op \in {"get_quiz", "submit_quiz"} /\ ~KnownQuiz(r.quiz_key)

C6_Response ==
    (UnknownKeyRequest(req) /\ "handler" \in StepSet) =>
        /\ resp = [status |-> 404, body |-> [detail |-> "Quiz not found"]]
        /\ "grade" \notin StepSet
        /\ "create_document" \notin StepSet

C6_Step == UnknownKeyRequest(req') => (db' = db /\ nextId' = nextId)

\* C6: get_quiz or submit_quiz with a key that is not in the quiz bank answers
\* 404 "Quiz not found"; on submit nothing is graded before that and no document
\* is inserted into the store.
C6_UnknownQuizIs404 == []C6_Response /\ [][C6_Step]_vars

\* submit_quiz ran for an unknown key while the store already held a document
C6_Witness ==
    /\ req.op = "submit_quiz"
    /\ req.quiz_key = "unknown-quiz"
    /\ "handler" \in StepSet
    /\ resp.status = 404
    /\ StoreSize = 1

\* the handler submit_reflection ran for the last request
ReflectionHandled(r, st) == r.op = "submit_reflection" /\ "handler" \in st

C7_Response ==
    ReflectionHandled(req, StepSet) =>
        IF IsValidObjectId(req.body["worksheet_id"])
        THEN /\ "create_document" \in StepSet
             /\ resp.status \in {200, 500}
             /\ Raised => resp.status = 500
        ELSE /\ resp = [status |-> 400, body |-> [detail |-> "Invalid worksheet_id"]]
             /\ "create_document" \notin StepSet

C7_Step ==
    (/\ ReflectionHandled(req', {steps'[i] : i \in 1..Len(steps')})
     /\ ~IsValidObjectId(req'.body["worksheet_id"]))
    => (db' = db /\ nextId' = nextId)

\* C7: a schema-valid reflection whose worksheet_id is not a well-formed store id
\* answers 400 "Invalid worksheet_id" and no insert is attempted; one whose
\* worksheet_id is well-formed reaches the store, whether or not such a worksheet
\* exists, and a store failure then answers 500, never 400.
C7_MalformedIdIs400 == []C7_Response /\ [][C7_Step]_vars

WorksheetExists(id) ==
    \E i \in 1..Len(db["worksheet"]) : Str(db["worksheet"][i]["_id"]) = id

\* a reflection naming a worksheet that does not exist was stored, next to worksheets
C7_Witness ==
    /\ ReflectionHandled(req, StepSet)
    /\ resp.status = 200
    /\ Len(db["worksheet"]) = 1
    /\ ~WorksheetExists(req.body["worksheet_id"])

LevelOutOfRange(r) ==
    /\ r.op = "submit_reflection"
    /\ "understanding_level" \in DOMAIN r.body
    /\ r.body["understanding_level"] \notin 1..5

C8_Response ==
    LevelOutOfRange(req) =>
        /\ resp.status = 422
        /\ steps = <<"validate">>

C8_Step == LevelOutOfRange(req') => (db' = db /\ nextId' = nextId)

\* C8: a reflection whose understanding_level is outside 1..5 is rejected by schema
\* validation before the handler runs: the worksheet_id check is not reached, the
\* store is not called and does not change.
C8_LevelRejectedBeforeHandler == []C8_Response /\ [][C8_Step]_vars

\* understanding_level 6 with a malformed worksheet_id got the validation error
C8_Witness ==
    /\ LevelOutOfRange(req)
    /\ req.body["understanding_level"] = 6
    /\ ~IsValidObjectId(req.body["worksheet_id"])
    /\ resp.status = 422

PrimaryWrite(r) == r.op \in {"submit_worksheet", "submit_reflection"}

CollectionOf(r) == IF r.op = "submit_worksheet" THEN "worksheet" ELSE "reflection"

C9_Response ==
    /\ (PrimaryWrite(req) /\ Raised) =>
          /\ resp.status = 500
          /\ DOMAIN resp.body = {"detail"}
          /\ resp.body.detail = steps[Len(steps)]
          /\ resp.body.detail \in DbErrors
    /\ (PrimaryWrite(req) /\ "inserted" \in StepSet) =>
          /\ resp.status = 200
          /\ LET docs == db[CollectionOf(req)]
             IN resp.body.id = Str(docs[Len(docs)]["_id"])
    /\ (req.op = "submit_quiz" /\ Raised) => resp.status = 200

C9_Step ==
    PrimaryWrite(req') =>
        IF "inserted" \in {steps'[i] : i \in 1..Len(steps')}
        THEN LET c == CollectionOf(req')
             IN /\ Len(db'[c]) = Len(db[c]) + 1
                /\ SubSeq(db'[c], 1, Len(db[c])) = db[c]
                /\ \A d \in Collections \ {c} : db'[d] = db[d]
                /\ \A d \in Collections : \A i \in 1..Len(db[d]) :
                      Str(db[d][i]["_id"]) # resp'.body.id
        ELSE db' = db

\* C9: for submit_worksheet and submit_reflection a failing insert answers 500
\* with the underlying error message and no id; a succeeding insert answers the
\* store-assigned id of the one document added. The quiz-result insert is the
\* opposite: its failure is suppressed.
C9_PrimaryWriteFailureIs500 == []C9_Response /\ [][C9_Step]_vars

\* a reflection was refused with the store's message after a worksheet was stored
C9_Witness ==
    /\ req.op = "submit_reflection"
    /\ Raised
    /\ resp.status = 500
    /\ resp.body.detail = "connection timed out"
    /\ Len(db["worksheet"]) = 1

\* C10: a submit to a known quiz key whose body carries answers (and optionally
\* student_name) but no quiz_key field is accepted and graded, and the result's
\* quiz_key is the key of the URL path.
C10_BodyWithoutQuizKeyIsGraded ==
    (/\ req.op = "submit_quiz"
     /\ KnownQuiz(req.quiz_key)
     /\ "answers" \in DOMAIN req.body
     /\ "quiz_key" \notin DOMAIN req.body)
    => /\ resp.status = 200
       /\ resp.body.quiz_key = req.quiz_key

=============================================================================
